---- MODULE Spec2Model ----
(***************************************************************************)
(* The stage of xecs (src/src/stage.rs): the registry of systems, the      *)
(* dependency-ordered run queue rebuilt by update(), and run().            *)
(*                                                                         *)
(* A TypeId is modelled by the name of its type.  An Option or a Result    *)
(* is a sequence of length at most one: <<>> is None / Ok(()), <<e>> is    *)
(* Some(e) / Err(e).                                                       *)
(***************************************************************************)
EXTENDS Integers, Sequences, FiniteSets, TLC

\* ---------------------------------------------------------------- bounds
\* the longest dependency list add_dependency may build
MaxDeps == 2
\* the most registrations made between two calls of run()
MaxPending == 2
\* entity identifiers a component column is used with: 1..MaxEntity
MaxEntity == 3

\* ------------------------------------------------------- the system types
\* TypeId::of::<End>(), the barrier
End == "End"
\* TypeId::of::<Errors>(), the built-in system every stage registers
ErrorsId == "Errors"
\* the system types the caller registers: X fails in update (ErrorSource of
\* error_test), Y depends on X (ErrorHandler), AfterAll depends on End
SystemTypes == {"X", "Y", "AfterAll"}
TypeIds == SystemTypes \cup {ErrorsId}
\* the types the caller registers with add_once_system
OnceTypes == {"X"}
\* the types the caller activates and deactivates
ToggledTypes == {"X"}
\* the types that declare a dependency on a type of OnceTypes
DependentTypes == {"Y"}
\* the system types whose data the program fetches from the stage
FetchedTypes == {"X"}
\* the pairs <<Src, Dep>> the caller gives add_dependency and remove_dependency:
\* X on Y closes a cycle with the declared edge of Y on X, Y on AfterAll puts Y
\* behind the barrier
EditedPairs == {<<"X", "Y">>, <<"Y", "AfterAll">>}

\* <<T as System>::Dependencies as Dependencies>::dependencies()
DeclaredDependencies(T) ==
    CASE T = "Y" -> <<"X">>
      [] T = "AfterAll" -> <<End>>
      [] OTHER -> <<>>

\* the results System::update of a type may return
UpdateResults(T) ==
    CASE T = "X" -> {<<>>, <<1>>, <<2>>}
      [] OTHER -> {<<>>}

\* the results System::init of a type may return
InitResults(T) ==
    CASE T = "X" -> {<<>>, <<1>>}
      [] OTHER -> {<<>>}

\* the orders in which a HashMap keyed by TypeId may be iterated
IterationOrders ==
    {o \in [1..Cardinality(TypeIds) -> TypeIds] : {o[i] : i \in DOMAIN o} = TypeIds}

Range(s) == {s[i] : i \in DOMAIN s}

\* ------------------------------------------------------------------ state
VARIABLES
    systems,          \* Stage.systems: TypeId -> SystemInfo, its keys the registered types
    need_update,      \* Stage.need_update
    run_queue,        \* Stage.run_queue
    need_init,        \* Stage.need_init
    errors,           \* the data of the Errors system: producer -> latest error
    debug_assertions, \* whether the build checks debug_assert!
    panic,            \* <<>> or the panic that ended the program: <<[op, src, dep, message]>>
    last_call,        \* the call made last: "new", "run" or "edit" (any other)
    rebuilt,          \* whether the last call rebuilt run_queue
    initialized,      \* the init hooks the last call invoked, in order
    executed,         \* the update hooks the last call invoked, in order
    observed,         \* what each of them could fetch from Errors at its update
    mutated,          \* a system was registered or removed, or a dependency edited, since the last rebuild
    failures,         \* the hooks of the last call that failed, in order: [hook, system, error]
    add_remove,       \* <<[src, dep, before, removed]>> when the last call was
                      \* add_dependency::<src,dep> on the systems `before` (removed =
                      \* FALSE), or the remove_dependency::<src,dep> right after it
                      \* (removed = TRUE); <<>> otherwise
    hooks,            \* the hooks the last call invoked, in order: [hook, system]
    column,           \* one component column: [indices, entities, data]
    attached,         \* the value last inserted for each entity of the column, <<>> when none
    column_call       \* the last call on the column: [op, a, b, before, panic]

vars == <<systems, need_update, run_queue, need_init, errors, debug_assertions, panic,
          last_call, rebuilt, initialized, executed, observed, mutated, failures, add_remove,
          hooks, column, attached, column_call>>

\* the state of the component column
world == <<column, attached, column_call>>

NoErrors == [t \in TypeIds |-> <<>>]
NoObservation == [t \in TypeIds |-> NoErrors]
Panic(op, src, dep, message) == <<[op |-> op, src |-> src, dep |-> dep, message |-> message]>>

SystemInfo(dependencies, is_active, is_once) ==
    [dependencies |-> dependencies, is_active |-> is_active, is_once |-> is_once]

\* HashMap::insert
Insert(map, key, value) ==
    [k \in DOMAIN map \cup {key} |-> IF k = key THEN value ELSE map[k]]

\* HashMap::remove of a set of keys
Remove(map, keys) == [k \in DOMAIN map \ keys |-> map[k]]

has_system_dyn(system) == system \in DOMAIN systems

DepSets(sys) == [t \in DOMAIN sys |-> Range(sys[t].dependencies)]

\* the effects of a call that invokes no hook and rebuilds nothing
NoHooks ==
    /\ rebuilt' = FALSE
    /\ initialized' = <<>>
    /\ executed' = <<>>
    /\ observed' = NoObservation
    /\ failures' = <<>>
    /\ hooks' = <<>>
    /\ UNCHANGED world

\* a panic unwinds out of the call and the stage is dropped with the program
Dropped ==
    /\ systems' = <<>>
    /\ need_update' = FALSE
    /\ run_queue' = <<>>
    /\ need_init' = <<>>
    /\ errors' = NoErrors
    /\ mutated' = FALSE
    /\ add_remove' = <<>>
    /\ UNCHANGED debug_assertions

\* a panic of a call that invokes no hook
Panics(op, src, dep, message) ==
    /\ panic' = Panic(op, src, dep, message)
    /\ last_call' = "edit"
    /\ NoHooks
    /\ Dropped

\* ------------------------------------------------- component column
\* EntityId values, and the component values T, a column is exercised with
EntityIds == 1..MaxEntity
Values == {"a", "b", "c"}

\* SparseSet::default: no slot in use, every sparse entry None (0); a sparse
\* entry of an entity in dense slot k is k + 1
EmptyColumn == [indices |-> [e \in EntityIds |-> 0], entities |-> <<>>, data |-> <<>>]
NoCall == [op |-> "new", a |-> 0, b |-> 0, before |-> EmptyColumn, panic |-> FALSE]
NotAttached == [e \in EntityIds |-> <<>>]

\* Stage::new: the Errors system registered, then deactivated; the world's
\* column is empty
Init ==
    /\ systems = Insert(<<>>, ErrorsId, SystemInfo(DeclaredDependencies(ErrorsId), FALSE, FALSE))
    /\ need_update = TRUE
    /\ run_queue = <<>>
    /\ need_init = <<ErrorsId>>
    /\ errors = NoErrors
    /\ debug_assertions \in BOOLEAN
    /\ panic = <<>>
    /\ last_call = "new"
    /\ rebuilt = FALSE
    /\ initialized = <<>>
    /\ executed = <<>>
    /\ observed = NoObservation
    /\ failures = <<>>
    /\ mutated = TRUE
    /\ add_remove = <<>>
    /\ hooks = <<>>
    /\ column = EmptyColumn
    /\ attached = NotAttached
    /\ column_call = NoCall

\* Stage::add_system and Stage::add_once_system, which differ in is_once only
Register(op, T, is_once) ==
    /\ panic = <<>>
    /\ Len(need_init) < MaxPending
    /\ need_update' = TRUE
    /\ need_init' = Append(need_init, T)
    /\ systems' = Insert(systems, T, SystemInfo(DeclaredDependencies(T), TRUE, is_once))
    /\ mutated' = TRUE
    /\ last_call' = "edit"
    /\ NoHooks
    /\ add_remove' = <<>>
    /\ UNCHANGED <<run_queue, errors, debug_assertions, panic>>

add_system(T) == Register("add_system", T, FALSE)

add_once_system(T) == Register("add_once_system", T, TRUE)

\* SetActive with a system that is not registered passed over
SetActive_Lenient(op, system, value) ==
    /\ panic = <<>>
    /\ systems' = IF has_system_dyn(system)
                  THEN [systems EXCEPT ![system].is_active = value]
                  ELSE systems
    /\ last_call' = "edit"
    /\ NoHooks
    /\ add_remove' = <<>>
    /\ UNCHANGED <<need_update, run_queue, need_init, errors, debug_assertions,
                   panic, mutated>>

\* Stage::deactivate_dyn and Stage::activate_dyn, which differ in the flag written
SetActive(op, system, value) ==
    /\ panic = <<>>
    /\ IF ~has_system_dyn(system)
       THEN Panics(op, system, "-",
                   IF debug_assertions THEN "There is no such system in stage"
                   ELSE "unwrap on None")
       ELSE /\ systems' = [systems EXCEPT ![system].is_active = value]
            /\ last_call' = "edit"
            /\ NoHooks
            /\ add_remove' = <<>>
            /\ UNCHANGED <<need_update, run_queue, need_init, errors, debug_assertions,
                           panic, mutated>>

deactivate_dyn(system) == SetActive("deactivate", system, FALSE)

activate_dyn(system) == SetActive("activate", system, TRUE)

\* Stage::system_data_ref and Stage::system_data_mut: the borrow handed out
\* changes nothing in the stage
SystemData(op, T) ==
    /\ panic = <<>>
    /\ IF ~has_system_dyn(T)
       THEN Panics(op, T, "-",
                   IF debug_assertions THEN "There is no such system in stage"
                   ELSE "unwrap on None")
       ELSE /\ last_call' = "edit"
            /\ NoHooks
            /\ add_remove' = <<>>
            /\ UNCHANGED <<systems, need_update, run_queue, need_init, errors,
                           debug_assertions, panic, mutated>>

system_data_ref(T) == SystemData("system_data_ref", T)

system_data_mut(T) == SystemData("system_data_mut", T)

\* Vec::push of dep_id (line 202)
PushDependency(dependencies, dep_id) == Append(dependencies, dep_id)

\* the index found by iter().enumerate().find(..) (lines 219-223): the first
\* position holding dep_id, <<>> when there is none
FindDependency(dependencies, dep_id) ==
    IF dep_id \in Range(dependencies)
    THEN <<CHOOSE i \in DOMAIN dependencies :
             /\ dependencies[i] = dep_id
             /\ \A j \in 1..(i - 1) : dependencies[j] # dep_id>>
    ELSE <<>>

\* RemoveAt with the index ignored: the first dependency goes
RemoveAt_First(dependencies, index) == Tail(dependencies)

\* Vec::remove(index) (line 227)
RemoveAt(dependencies, index) ==
    [i \in 1..(Len(dependencies) - 1) |->
        IF i < index THEN dependencies[i] ELSE dependencies[i + 1]]

\* Stage::add_dependency::<Src,Dep>
add_dependency(Src, Dep) ==
    /\ panic = <<>>
    /\ IF ~has_system_dyn(Src)
       THEN Panics("add_dependency", Src, Dep,
                   IF debug_assertions
                   THEN "Add dependency to system failed! The source system is not in stage"
                   ELSE "unwrap on None")
       ELSE LET dependencies == systems[Src].dependencies IN
            IF debug_assertions /\ Dep \in Range(dependencies)
            THEN Panics("add_dependency", Src, Dep,
                        "Add dependency to system failed! The dependency system has already in source system")
            ELSE /\ Len(dependencies) < MaxDeps
                 /\ systems' = [systems EXCEPT ![Src].dependencies = PushDependency(dependencies, Dep)]
                 /\ last_call' = "edit"
                 /\ NoHooks
                 /\ mutated' = TRUE
                 /\ add_remove' = <<[src |-> Src, dep |-> Dep, before |-> systems,
                                     removed |-> FALSE]>>
                 /\ UNCHANGED <<need_update, run_queue, need_init, errors, debug_assertions, panic>>

\* Stage::remove_dependency::<Src,Dep>
remove_dependency(Src, Dep) ==
    /\ panic = <<>>
    /\ IF ~has_system_dyn(Src)
       THEN Panics("remove_dependency", Src, Dep,
                   IF debug_assertions
                   THEN "Remove dependency from system failed! The source system is not in stage"
                   ELSE "unwrap on None")
       ELSE LET dependencies == systems[Src].dependencies
                index == FindDependency(dependencies, Dep)
            IN  IF index = <<>>
                THEN Panics("remove_dependency", Src, Dep,
                            IF debug_assertions
                            THEN "Remove dependency from system failed! Cannot find dependency system"
                            ELSE "unwrap on None")
                ELSE /\ systems' = [systems EXCEPT ![Src].dependencies = RemoveAt(dependencies, index[1])]
                     /\ last_call' = "edit"
                     /\ NoHooks
                     /\ mutated' = TRUE
                     /\ add_remove' =
                            IF /\ add_remove # <<>>
                               /\ ~add_remove[1].removed
                               /\ add_remove[1].src = Src
                               /\ add_remove[1].dep = Dep
                            THEN <<[add_remove[1] EXCEPT !.removed = TRUE]>>
                            ELSE <<>>
                     /\ UNCHANGED <<need_update, run_queue, need_init, errors, debug_assertions, panic>>

\* ------------------------------------------------------------ update()
\* lines 272-275: every registered system counts its dependencies
InitialCount(sys) == [t \in DOMAIN sys |-> Len(sys[t].dependencies)]

\* Resolves with a dependency that is no key of inverse_map passed over
Resolves_Skipped(sys) == TRUE

\* lines 278-284 fail on a dependency that is no key of inverse_map
Resolves(sys) ==
    \A t \in DOMAIN sys : Range(sys[t].dependencies) \subseteq DOMAIN sys \cup {End}

\* inverse_map[key] as lines 278-284 build it, the systems visited from
\* position i of order on: one entry per occurrence of key in a dependency
\* list.  The entries are only counted down (Decrement), so the order in
\* which the HashMap of systems is visited does not show; SomeOrder fixes one.
RECURSIVE Consumers(_, _, _, _)
Consumers(sys, key, order, i) ==
    IF i > Len(order) THEN <<>>
    ELSE LET self_type == order[i]
             mine == IF self_type \in DOMAIN sys
                     THEN SelectSeq(sys[self_type].dependencies, LAMBDA d : d = key)
                     ELSE <<>>
         IN  [j \in 1..Len(mine) |-> self_type] \o Consumers(sys, key, order, i + 1)

SomeOrder == CHOOSE o \in IterationOrders : TRUE

\* InverseMap with the edges the wrong way round: each system listed under
\* itself as a consumer of what it depends on is listed as its producer
InverseMap_Reversed(sys) ==
    [key \in DOMAIN sys \cup {End} |->
        IF key \in DOMAIN sys
        THEN SelectSeq(sys[key].dependencies, LAMBDA d : d \in DOMAIN sys)
        ELSE <<>>]

\* lines 269-284
InverseMap(sys) ==
    [key \in DOMAIN sys \cup {End} |-> Consumers(sys, key, SomeOrder, 1)]

\* find_zero with the built-in Errors system passed over as End is
find_zero_UserOnly(count) == {t \in DOMAIN count : t # End /\ t # ErrorsId /\ count[t] = 0}

\* find_zero (lines 286-297) returns the first key the HashMap's iteration
\* visits, End apart, whose count is 0, and the iteration order of a HashMap
\* is arbitrary: the keys it may return, None when there is none
find_zero(count) == {t \in DOMAIN count : t # End /\ count[t] = 0}

\* lines 304-307 and 313-316, on [count, queue, failed]: one decrement per
\* listed consumer; get_mut's unwrap fails on a consumer that is no key of the
\* counts any more.  A count of 0 cannot be counted down (the subtraction
\* overflows: a panic where overflow is checked, usize::MAX where it is not);
\* a count starts as the number of entries that list the system, so neither
\* case arises from a registry that Resolves, and both end the sort as failed.
RECURSIVE Decrement(_, _)
Decrement(state, consumers) ==
    IF consumers = <<>> \/ state.failed THEN state
    ELSE LET system == Head(consumers) IN
         IF system \notin DOMAIN state.count \/ state.count[system] = 0
         THEN [state EXCEPT !.failed = TRUE]
         ELSE Decrement([state EXCEPT !.count[system] = @ - 1], Tail(consumers))

\* sort with each system put at the front of the queue
RECURSIVE sort_Prepend(_, _)
sort_Prepend(inverse_map, state) ==
    IF state.failed \/ find_zero(state.count) = {} THEN {state}
    ELSE UNION {sort_Prepend(inverse_map,
                     Decrement([state EXCEPT !.count = Remove(state.count, {type_id}),
                                             !.queue = <<type_id>> \o state.queue],
                               inverse_map[type_id])) :
                type_id \in find_zero(state.count)}

\* sort (lines 298-309), on [count, queue, failed]: the states it may end in
RECURSIVE sort(_, _)
sort(inverse_map, state) ==
    IF state.failed \/ find_zero(state.count) = {} THEN {state}
    ELSE UNION {sort(inverse_map,
                     Decrement([state EXCEPT !.count = Remove(state.count, {type_id}),
                                             !.queue = Append(state.queue, type_id)],
                               inverse_map[type_id])) :
                type_id \in find_zero(state.count)}

\* Schedule with the consumers of End released before the first sort
Schedule_ReleaseFirst(sys) ==
    LET inverse_map == InverseMap(sys) IN
    sort(inverse_map,
         Decrement([count |-> InitialCount(sys), queue |-> <<>>, failed |-> FALSE],
                   inverse_map[End]))

\* lines 310-318: sort, release the consumers of End, sort again
Schedule(sys) ==
    LET inverse_map == InverseMap(sys) IN
    UNION {sort(inverse_map, Decrement(first, inverse_map[End])) :
           first \in sort(inverse_map, [count |-> InitialCount(sys), queue |-> <<>>,
                                        failed |-> FALSE])}

\* update with the dependencies that are no key of inverse_map passed over
update_Unchecked(sys, dirty, queue) ==
    IF ~dirty
    THEN {[run_queue |-> queue, rebuilt |-> FALSE, panic |-> ""]}
    ELSE {[run_queue |-> sorted.queue, rebuilt |-> TRUE,
           panic |-> IF sorted.failed THEN "unwrap on None" ELSE ""] :
          sorted \in Schedule(sys)}

\* Stage::update: the [run_queue, rebuilt, panic] it may end with
update(sys, dirty, queue) ==
    IF ~dirty
    THEN {[run_queue |-> queue, rebuilt |-> FALSE, panic |-> ""]}
    ELSE IF ~Resolves(sys)
    THEN {[run_queue |-> <<>>, rebuilt |-> TRUE,
           panic |-> "Some dependencies have not been added to stage"]}
    ELSE {[run_queue |-> sorted.queue, rebuilt |-> TRUE,
           panic |-> IF sorted.failed THEN "unwrap on None" ELSE ""] :
          sorted \in Schedule(sys)}

\* --------------------------------------------------------------- run()
AllResults == UNION {UpdateResults(t) \cup InitResults(t) : t \in TypeIds}

\* what the init hooks, and the update hooks, of one pass return
InitOutcomes == {f \in [TypeIds -> AllResults] : \A t \in TypeIds : f[t] \in InitResults(t)}
UpdateOutcomes == {f \in [TypeIds -> AllResults] : \A t \in TypeIds : f[t] \in UpdateResults(t)}

\* Run::initialize and Run::run hand a failure of the hook to the Errors
\* system, which keeps it under the identity of the system that failed
Capture(errs, producer, result) ==
    IF result = <<>> THEN errs ELSE [errs EXCEPT ![producer] = result]

\* the failures a pass has seen so far, one more when result is a failure
Failure(seen, hook, system, result) ==
    IF result = <<>> THEN seen
    ELSE Append(seen, [hook |-> hook, system |-> system, error |-> result[1]])

\* Initialize with need_init cleared after its first entry
Initialize_OnlyFirst(sys, pending, results, state) ==
    IF pending = <<>> THEN state
    ELSE LET system_type == Head(pending) IN
         IF system_type \notin DOMAIN sys
         THEN [state EXCEPT !.failed = TRUE]
         ELSE [state EXCEPT !.errors = Capture(@, system_type, results[system_type]),
                            !.failures = Failure(@, "init", system_type, results[system_type]),
                            !.initialized = Append(@, system_type),
                            !.hooks = Append(@, [hook |-> "init", system |-> system_type])]

\* lines 237-244, on [errors, initialized, failures, hooks, failed]: unwrap fails on
\* an identity that is not registered
RECURSIVE Initialize(_, _, _, _)
Initialize(sys, pending, results, state) ==
    IF pending = <<>> \/ state.failed THEN state
    ELSE LET system_type == Head(pending) IN
         IF system_type \notin DOMAIN sys
         THEN [state EXCEPT !.failed = TRUE]
         ELSE Initialize(sys, Tail(pending), results,
                         [state EXCEPT !.errors = Capture(@, system_type, results[system_type]),
                                       !.failures = Failure(@, "init", system_type,
                                                            results[system_type]),
                                       !.initialized = Append(@, system_type),
                                       !.hooks = Append(@, [hook |-> "init",
                                                            system |-> system_type])])

\* IsRun with the active flag ignored
IsRun_Always(system) == TRUE

\* line 251: the systems whose update hook the loop invokes
IsRun(system) == system.is_active

\* line 252: the systems the loop lists for removal
IsRemoved(system) == system.is_once

\* Execute with the loop left at the first update hook that fails
RECURSIVE Execute_StopOnFailure(_, _, _, _)
Execute_StopOnFailure(sys, queue, results, state) ==
    IF queue = <<>> \/ state.failed THEN state
    ELSE LET type_id == Head(queue) IN
         IF type_id \notin DOMAIN sys
         THEN [state EXCEPT !.failed = TRUE]
         ELSE IF IsRun(sys[type_id])
         THEN Execute_StopOnFailure(
                      sys, IF results[type_id] = <<>> THEN Tail(queue) ELSE <<>>, results,
                      [state EXCEPT
                         !.remove_list = IF IsRemoved(sys[type_id]) THEN Append(@, type_id) ELSE @,
                         !.observed[type_id] = state.errors,
                         !.executed = Append(@, type_id),
                         !.hooks = Append(@, [hook |-> "update", system |-> type_id]),
                         !.failures = Failure(@, "update", type_id, results[type_id]),
                         !.errors = Capture(@, type_id, results[type_id])])
         ELSE Execute_StopOnFailure(sys, Tail(queue), results, state)

\* lines 247-257, on [errors, executed, observed, failures, remove_list, hooks, failed]
RECURSIVE Execute(_, _, _, _)
Execute(sys, queue, results, state) ==
    IF queue = <<>> \/ state.failed THEN state
    ELSE LET type_id == Head(queue) IN
         IF type_id \notin DOMAIN sys
         THEN [state EXCEPT !.failed = TRUE]
         ELSE IF IsRun(sys[type_id])
         THEN Execute(sys, Tail(queue), results,
                      [state EXCEPT
                         !.remove_list = IF IsRemoved(sys[type_id]) THEN Append(@, type_id) ELSE @,
                         !.observed[type_id] = state.errors,
                         !.executed = Append(@, type_id),
                         !.hooks = Append(@, [hook |-> "update", system |-> type_id]),
                         !.failures = Failure(@, "update", type_id, results[type_id]),
                         !.errors = Capture(@, type_id, results[type_id])])
         ELSE Execute(sys, Tail(queue), results, state)

\* Stage::run
run ==
    /\ panic = <<>>
    /\ \E built \in update(systems, need_update, run_queue) :
       \E inited \in {Initialize(systems, need_init, inits,
                                 [errors |-> errors, initialized |-> <<>>, failures |-> <<>>,
                                  hooks |-> <<>>, failed |-> FALSE]) :
                      inits \in InitOutcomes} :
       \E ran \in {Execute(systems, built.run_queue, updates,
                           [errors |-> inited.errors, executed |-> <<>>,
                            observed |-> NoObservation, failures |-> inited.failures,
                            remove_list |-> <<>>, hooks |-> inited.hooks,
                            failed |-> FALSE]) :
                   updates \in UpdateOutcomes} :
             /\ last_call' = "run"
             /\ rebuilt' = built.rebuilt
             /\ initialized' = IF built.panic # "" THEN <<>> ELSE inited.initialized
             /\ executed' = IF built.panic # "" \/ inited.failed THEN <<>> ELSE ran.executed
             /\ observed' = IF built.panic # "" \/ inited.failed THEN NoObservation ELSE ran.observed
             /\ failures' = IF built.panic # "" THEN <<>>
                            ELSE IF inited.failed THEN inited.failures ELSE ran.failures
             /\ hooks' = IF built.panic # "" THEN <<>>
                         ELSE IF inited.failed THEN inited.hooks ELSE ran.hooks
             /\ IF built.panic # ""
                THEN panic' = Panic("run", "-", "-", built.panic) /\ Dropped
                ELSE IF inited.failed \/ ran.failed
                THEN panic' = Panic("run", "-", "-", "unwrap on None") /\ Dropped
                ELSE /\ panic' = <<>>
                     /\ run_queue' = built.run_queue
                     /\ need_init' = <<>>
                     /\ errors' = ran.errors
                     /\ systems' = Remove(systems, Range(ran.remove_list))
                     /\ mutated' = (ran.remove_list # <<>> \/ (~built.rebuilt /\ mutated))
                     /\ add_remove' = <<>>
                     /\ UNCHANGED <<need_update, debug_assertions>>
             /\ UNCHANGED world

\* ----------------------------------------------------- SparseSet<E, T>
\* SparseSet::exist
exist(set, id) == set.indices[id] # 0

\* SparseSet::get_index: the dense slot of id, counted from 0, or None
get_index(set, id) == IF set.indices[id] = 0 THEN <<>> ELSE <<set.indices[id] - 1>>

\* SparseSet::len
len(set) == Len(set.entities)

\* SparseSet::add: the value of a present entity is replaced in its slot, an
\* absent entity takes a new last slot
add(set, id, value) ==
    IF exist(set, id)
    THEN [set EXCEPT !.data[set.indices[id]] = value]
    ELSE [indices |-> [set.indices EXCEPT ![id] = len(set) + 1],
          entities |-> Append(set.entities, id),
          data |-> Append(set.data, value)]

\* SparseSet::remove: [set, result], result None for an absent entity; the
\* entry of the last slot is moved into the slot of id, then the last slot
\* is dropped
sparse_remove(set, id) ==
    IF ~exist(set, id)
    THEN [set |-> set, result |-> <<>>]
    ELSE LET slot == set.indices[id]
             last == len(set)
             moved == set.entities[last]
         IN  [set |-> [indices |-> [[set.indices EXCEPT ![moved] = slot] EXCEPT ![id] = 0],
                       entities |-> SubSeq([set.entities EXCEPT ![slot] = moved], 1, last - 1),
                       data |-> SubSeq([set.data EXCEPT ![slot] = set.data[last]], 1, last - 1)],
              result |-> <<set.data[slot]>>]

\* SparseSet::swap_by_index on slots counted from 0: [set, panic], a slot that
\* is not in use is out of the bounds of the dense vectors
sparse_swap_by_index(set, index_a, index_b) ==
    IF index_a >= len(set) \/ index_b >= len(set)
    THEN [set |-> set, panic |-> TRUE]
    ELSE LET entity_a == set.entities[index_a + 1]
             entity_b == set.entities[index_b + 1]
         IN  [set |-> [indices |-> [[set.indices EXCEPT ![entity_a] = index_b + 1]
                                       EXCEPT ![entity_b] = index_a + 1],
                       entities |-> [[set.entities EXCEPT ![index_a + 1] = entity_b]
                                        EXCEPT ![index_b + 1] = entity_a],
                       data |-> [[set.data EXCEPT ![index_a + 1] = set.data[index_b + 1]]
                                    EXCEPT ![index_b + 1] = set.data[index_a + 1]]],
              panic |-> FALSE]

\* ---------------------------------- ComponentStorage for SparseSet<EntityId, T>
\* line 20
has(storage, entity_id) == exist(storage, entity_id)

\* index with the sparse entry handed out as it is stored
index_Stored(storage, entity_id) ==
    IF storage.indices[entity_id] = 0 THEN <<>> ELSE <<storage.indices[entity_id]>>

\* line 24
index(storage, entity_id) == get_index(storage, entity_id)

\* remove with the result of SparseSet::remove dropped instead of unwrapped
remove_Unchecked(storage, entity_id) ==
    [storage |-> sparse_remove(storage, entity_id).set, panic |-> FALSE]

\* line 28: [storage, panic], unwrap panics on None
remove(storage, entity_id) ==
    LET removed == sparse_remove(storage, entity_id) IN
    IF removed.result = <<>>
    THEN [storage |-> storage, panic |-> TRUE]
    ELSE [storage |-> removed.set, panic |-> FALSE]

\* line 32: [storage, panic]
swap_by_index(storage, index_a, index_b) ==
    LET swapped == sparse_swap_by_index(storage, index_a, index_b) IN
    [storage |-> swapped.set, panic |-> swapped.panic]

\* count as the length of the sparse array
count_Sparse(storage) == Cardinality(DOMAIN storage.indices)

\* line 36
count(storage) == len(storage)

\* lines 13-15
is_empty(storage) == count(storage) = 0

\* the stage is left alone by the calls on the column
StageUnchanged ==
    UNCHANGED <<systems, need_update, run_queue, need_init, errors, debug_assertions, panic,
                last_call, rebuilt, initialized, executed, observed, mutated, failures,
                add_remove, hooks>>

\* a call on the column that panics: the world is dropped with the program
ColumnPanics(op, a, b) ==
    /\ column_call' = [op |-> op, a |-> a, b |-> b, before |-> column, panic |-> TRUE]
    /\ column' = EmptyColumn
    /\ attached' = NotAttached
    /\ StageUnchanged

\* a call on the column that returns, leaving it as storage
ColumnReturns(op, a, b, storage) ==
    /\ column_call' = [op |-> op, a |-> a, b |-> b, before |-> column, panic |-> FALSE]
    /\ column' = storage
    /\ StageUnchanged

\* the world attaches value to entity_id: SparseSet::add on the column
Attach(entity_id, value) ==
    /\ ~column_call.panic
    /\ ColumnReturns("insert", entity_id, 0, add(column, entity_id, value))
    /\ attached' = [attached EXCEPT ![entity_id] = <<value>>]

\* ComponentStorage::remove on the column
Detach(entity_id) ==
    /\ ~column_call.panic
    /\ \E removed \in {remove(column, entity_id)} :
          IF removed.panic
          THEN ColumnPanics("remove", entity_id, 0)
          ELSE /\ ColumnReturns("remove", entity_id, 0, removed.storage)
               /\ attached' = [attached EXCEPT ![entity_id] = <<>>]

\* ComponentStorage::swap_by_index on the column
Swap(index_a, index_b) ==
    /\ ~column_call.panic
    /\ \E swapped \in {swap_by_index(column, index_a, index_b)} :
          IF swapped.panic
          THEN ColumnPanics("swap_by_index", index_a, index_b)
          ELSE /\ ColumnReturns("swap_by_index", index_a, index_b, swapped.storage)
               /\ UNCHANGED attached

\* ------------------------------------------------------------ properties
\* the place of x in a sequence that holds it once
Position(seq, x) == CHOOSE i \in DOMAIN seq : seq[i] = x

\* a and b both occur in seq, a before b
Precedes(seq, a, b) ==
    /\ a \in Range(seq)
    /\ b \in Range(seq)
    /\ Position(seq, a) < Position(seq, b)

\* the declared dependencies of t, as a set
Deps(sys, t) == IF t \in DOMAIN sys THEN Range(sys[t].dependencies) ELSE {}

RECURSIVE Closure(_, _, _)
Closure(sys, set, n) ==
    IF n = 0 THEN set
    ELSE Closure(sys, set \cup UNION {Deps(sys, u) : u \in set}, n - 1)

\* everything t depends on, directly or through other systems
Needs(sys, t) == Closure(sys, Deps(sys, t), Cardinality(TypeIds))

\* some system depends on itself, directly or through other systems
Cyclic(sys) == \E t \in DOMAIN sys : t \in Needs(sys, t)

\* t neither lies on a cycle nor depends on a system that does
Schedulable(sys, t) == \A u \in Needs(sys, t) \cup {t} : u \notin Needs(sys, u)

\* t depends on the barrier, directly or through other systems
BehindBarrier(sys, t) == End \in Needs(sys, t)

\* the registered systems of sys that are active, in the order of queue
ActiveOf(sys, queue) ==
    SelectSeq(queue, LAMBDA t : t \in DOMAIN sys /\ sys[t].is_active)

\* the run orders a rebuild of sys may compute
RunOrders(sys) == {sorted.queue : sorted \in Schedule(sys)}

\* this step is a call of run() that returned
RunReturns == last_call' = "run" /\ panic' = <<>>

\* C1: when no registered system depends on itself through others and every
\* dependency is a registered system or End, the run order a returning run()
\* has computed holds every dependency of a system before that system, and the
\* update hooks invoked are those of the active systems, in that order.
C1_DependenciesFirst ==
    [][(RunReturns /\ ~Cyclic(systems) /\ Resolves(systems)) =>
          /\ \A t \in DOMAIN systems : \A d \in Deps(systems, t) \ {End} :
                Precedes(run_queue', d, t)
          /\ executed' = ActiveOf(systems, run_queue')]_vars

C1_Witness ==
    /\ last_call = "run"
    /\ panic = <<>>
    /\ "AfterAll" \in Deps(systems, "Y")
    /\ executed = <<"X", "AfterAll", "Y">>

\* C2: in the run order of a stage without cycle, every system that depends on
\* End, directly or through other systems, comes after every system that does not.
C2_BarrierLast ==
    [][(RunReturns /\ ~Cyclic(systems) /\ Resolves(systems)) =>
          \A a, b \in DOMAIN systems :
             (BehindBarrier(systems, a) /\ ~BehindBarrier(systems, b)) =>
                Precedes(run_queue', b, a)]_vars

C2_Witness ==
    /\ last_call = "run"
    /\ panic = <<>>
    /\ Deps(systems, "Y") = {"X", "AfterAll"}
    /\ BehindBarrier(systems, "Y")
    /\ Precedes(run_queue, "X", "AfterAll")
    /\ Precedes(run_queue, ErrorsId, "AfterAll")
    /\ Precedes(run_queue, "AfterAll", "Y")

\* C3: a run() on a stage whose dependencies hold a cycle is fatal, and a
\* run() that returns has a run order holding every registered system.
C3_CycleIsFatal ==
    [][(last_call' = "run") =>
          /\ Cyclic(systems) => panic' # <<>>
          /\ panic' = <<>> => DOMAIN systems \subseteq Range(run_queue')]_vars

\* C4: a run() that returns invokes the update hook of every once-system that
\* is active and removes it from the registry; a once-system that is inactive
\* is neither executed nor removed.
C4_OnceOnFirstActiveRun ==
    [][RunReturns =>
          \A S \in DOMAIN systems : systems[S].is_once =>
             IF systems[S].is_active
             THEN S \in Range(executed') /\ S \notin DOMAIN systems'
             ELSE S \notin Range(executed') /\ S \in DOMAIN systems']_vars

C6_DependentsOfInactiveSkipped ==
    [][RunReturns =>
          \A T \in DOMAIN systems : ~systems[T].is_active =>
             /\ T \notin Range(executed')
             /\ \A D \in DOMAIN systems :
                   T \in Deps(systems, D) => D \notin Range(executed')]_vars

\* C7: when the update hook of X fails with an error, every system executed in
\* the same pass that depends on X finds exactly that error under X in the
\* Errors system, whatever X left there in an earlier pass, and it is the
\* error the Errors system holds for X when the pass ends.
C7_DependentSeesLatestError ==
    [][RunReturns =>
          \A f \in Range(failures') : f.hook = "update" =>
             /\ errors'[f.system] = <<f.error>>
             /\ \A Y \in Range(executed') :
                   f.system \in Deps(systems, Y) => observed'[Y][f.system] = <<f.error>>]_vars

C7_Witness ==
    /\ last_call = "run"
    /\ panic = <<>>
    /\ executed = <<"X", "Y">>
    /\ observed["X"]["X"] = <<1>>
    /\ failures = <<[hook |-> "update", system |-> "X", error |-> 2]>>
    /\ observed["Y"]["X"] = <<2>>

\* C8: a run() in which an init or update hook fails still returns, and has
\* invoked the update hook of every active system of the run order.
C8_FailureDoesNotAbort ==
    [][(last_call' = "run" /\ failures' # <<>>) =>
          /\ panic' = <<>>
          /\ executed' = ActiveOf(systems, run_queue')]_vars

C8_Witness ==
    /\ last_call = "run"
    /\ panic = <<>>
    /\ failures = <<[hook |-> "init", system |-> "X", error |-> 1],
                    [hook |-> "update", system |-> "X", error |-> 2]>>
    /\ executed = <<"X", "Y", "AfterAll">>

\* C9: a run() that follows an earlier run() with no registration, no
\* dependency edit and no removal of a once-system in between rebuilds
\* nothing and uses the run order of the earlier one.
C9_SecondRunReusesOrder ==
    [][(RunReturns /\ ~mutated) =>
          /\ ~rebuilt'
          /\ run_queue' = run_queue]_vars

\* C10: remove_dependency::<Src,Dep> right after add_dependency::<Src,Dep>,
\* Src not depending on Dep before, returns and leaves every system with the
\* set of dependencies it had before the two calls, and so with the same
\* possible run orders.
C10_AddThenRemoveRestores ==
    [][\A pair \in EditedPairs :
          (/\ add_remove # <<>>
           /\ ~add_remove[1].removed
           /\ add_remove[1].src = pair[1] /\ add_remove[1].dep = pair[2]
           /\ pair[2] \notin Deps(add_remove[1].before, pair[1])
           /\ remove_dependency(pair[1], pair[2])) =>
             /\ panic' = <<>>
             /\ DepSets(systems') = DepSets(add_remove[1].before)
             /\ Resolves(systems') = Resolves(add_remove[1].before)
             /\ Resolves(systems') =>
                   RunOrders(systems') = RunOrders(add_remove[1].before)]_vars

C10_Witness ==
    /\ add_remove # <<>>
    /\ add_remove[1].removed
    /\ add_remove[1].dep \notin Deps(add_remove[1].before, add_remove[1].src)
    /\ add_remove[1].before[add_remove[1].src].dependencies # <<>>

\* a sequence that holds no element twice
NoDuplicate(seq) == Cardinality(Range(seq)) = Len(seq)

\* C11: add_dependency::<Src,Dep> and remove_dependency::<Src,Dep> panic when
\* Src is not registered, add_dependency panics when Src already depends on
\* Dep, remove_dependency panics when Src does not depend on Dep, and no
\* dependency list holds the same dependency twice after such a call
C11_EditsFailLoudly ==
    [][\A pair \in EditedPairs :
          /\ (/\ add_dependency(pair[1], pair[2])
              /\ (~has_system_dyn(pair[1]) \/ pair[2] \in Deps(systems, pair[1])))
                => panic' # <<>>
          /\ (/\ remove_dependency(pair[1], pair[2])
              /\ (~has_system_dyn(pair[1]) \/ pair[2] \notin Deps(systems, pair[1])))
                => panic' # <<>>
          /\ (add_dependency(pair[1], pair[2]) \/ remove_dependency(pair[1], pair[2]))
                => \A t \in DOMAIN systems' : NoDuplicate(systems'[t].dependencies)]_vars

\* C12: when a registered system depends on an identity that is neither
\* registered nor End at the time of a rebuild, run() panics during the rebuild
\* and invokes no update hook
C12_UnknownDependencyFatalAtRebuild ==
    [][(/\ last_call' = "run"
        /\ need_update
        /\ \E t \in DOMAIN systems : \E dep \in Deps(systems, t) :
               ~has_system_dyn(dep) /\ dep # End)
          => /\ panic' = Panic("run", "-", "-", "Some dependencies have not been added to stage")
             /\ ~rebuilt' \/ run_queue' = <<>>
             /\ executed' = <<>>
             /\ \A i \in DOMAIN hooks' : hooks'[i].hook # "update"]_vars

C12_Witness ==
    /\ last_call = "run"
    /\ panic = Panic("run", "-", "-", "Some dependencies have not been added to stage")
    /\ executed = <<>>

\* a call of activate, deactivate, system_data_ref or system_data_mut on T
Access(T) ==
    \/ T \in ToggledTypes /\ (activate_dyn(T) \/ deactivate_dyn(T))
    \/ T \in FetchedTypes /\ (system_data_ref(T) \/ system_data_mut(T))

\* C13 as stated: add_dependency::<Src,Dep> with Dep not registered panics at
\* that call, and activate, deactivate and system-data access on a system that
\* is not registered panic at that call
C13_FailFastAtTheCall ==
    [][/\ \A pair \in EditedPairs :
             (add_dependency(pair[1], pair[2]) /\ ~has_system_dyn(pair[2])) => panic' # <<>>
       /\ \A T \in SystemTypes : (Access(T) /\ ~has_system_dyn(T)) => panic' # <<>>]_vars

\* C13 amended: activate, deactivate and system-data access on a system that
\* is not registered panic at that call; add_dependency::<Src,Dep> with Src
\* registered, Dep not registered and no such edge yet returns normally with
\* the edge added, and the unknown target is fatal at the rebuild of the next
\* run() that finds it still unregistered
C13_UnknownTargetFatalAtRun ==
    [][/\ \A T \in SystemTypes : (Access(T) /\ ~has_system_dyn(T)) => panic' # <<>>
       /\ \A pair \in EditedPairs :
             (/\ add_dependency(pair[1], pair[2])
              /\ has_system_dyn(pair[1])
              /\ ~has_system_dyn(pair[2])
              /\ pair[2] \notin Deps(systems, pair[1]))
                => /\ panic' = <<>>
                   /\ systems'[pair[1]].dependencies =
                         Append(systems[pair[1]].dependencies, pair[2])
       /\ (/\ last_call' = "run"
           /\ \E t \in DOMAIN systems : \E dep \in Deps(systems, t) :
                  ~has_system_dyn(dep) /\ dep # End)
             => panic' # <<>> /\ hooks' = <<>>]_vars

C13_Witness ==
    /\ panic = <<>>
    /\ add_remove # <<>>
    /\ ~add_remove[1].removed
    /\ add_remove[1].dep \notin DOMAIN systems
    /\ add_remove[1].dep \in Deps(systems, add_remove[1].src)

\* C14: need_init holds the systems registered since the previous run(): a
\* registration appends its system and no other call that returns changes the
\* list; a run() that returns has invoked the init hook of each of them, every
\* init hook before any update hook of that run, and leaves the list empty,
\* so that a later run() does not invoke the hook again without a registration
C14_InitOncePerRegistration ==
    [][/\ \A T \in SystemTypes :
             (add_system(T) \/ add_once_system(T)) => need_init' = Append(need_init, T)
       /\ (/\ panic' = <<>>
           /\ last_call' # "run"
           /\ ~\E T \in SystemTypes : add_system(T) \/ add_once_system(T))
             => need_init' = need_init
       /\ RunReturns
             => /\ initialized' = need_init
                /\ need_init' = <<>>
                /\ Len(hooks') = Len(initialized') + Len(executed')
                /\ \A i \in DOMAIN hooks' :
                      /\ i <= Len(initialized')
                            => hooks'[i] = [hook |-> "init", system |-> initialized'[i]]
                      /\ i > Len(initialized')
                            => hooks'[i] = [hook |-> "update",
                                            system |-> executed'[i - Len(initialized')]]]_vars

C14_Witness ==
    /\ last_call = "run"
    /\ panic = <<>>
    /\ need_init = <<>>
    /\ Len(initialized) > 1
    /\ executed # <<>>
    /\ hooks[1].hook = "init"
    /\ hooks[Len(hooks)].hook = "update"

\* C17: need_update is set by add_system, add_once_system, add_dependency
\* and remove_dependency; run() rebuilds the order exactly when it is set, and
\* it is clear when that run() returns; any other call leaves it as it is
C17_DirtyFlagStateMachine ==
    [][panic' = <<>> =>
          /\ ((\E T \in SystemTypes : add_system(T) \/ add_once_system(T))
              \/ \E pair \in EditedPairs :
                    add_dependency(pair[1], pair[2]) \/ remove_dependency(pair[1], pair[2]))
                => need_update'
          /\ last_call' = "run" => (rebuilt' = need_update /\ ~need_update')
          /\ (\E T \in SystemTypes : Access(T)) => need_update' = need_update]_vars

\* C19: a run() on a registry without a cycle whose dependencies all resolve
\* returns, and the order it rebuilt holds every registered system exactly
\* once, inactive systems and Errors included, and nothing else, so that each
\* entry of the order is a key of the registry the execution loop looks it up in
C19_OrderIsTheRegistry ==
    [][(/\ last_call' = "run"
        /\ need_update
        /\ ~Cyclic(systems)
        /\ \A t \in DOMAIN systems : Deps(systems, t) \subseteq DOMAIN systems \cup {End})
          => /\ panic' = <<>>
             /\ rebuilt'
             /\ Range(run_queue') = DOMAIN systems
             /\ NoDuplicate(run_queue')
             /\ ErrorsId \in Range(run_queue')]_vars

C19_Witness ==
    /\ last_call = "run"
    /\ panic = <<>>
    /\ rebuilt
    /\ Len(run_queue) > 2
    /\ Range(run_queue) = DOMAIN systems
    /\ ErrorsId \in Range(run_queue)
    /\ \E t \in Range(run_queue) \ {ErrorsId} : ~systems[t].is_active

Present(storage) == {e \in EntityIds : has(storage, e)}

\* index(e) names a slot in use, which holds e and the value attached to e
OwnSlot(storage, values, e) ==
    /\ index(storage, e) # <<>>
    /\ index(storage, e)[1] + 1 \in DOMAIN storage.entities
    /\ storage.entities[index(storage, e)[1] + 1] = e
    /\ values[e] = <<storage.data[index(storage, e)[1] + 1]>>

\* C15: remove(id) of a present entity returns; afterwards has(id) is false
\* and index(id) is None, count() is one less, and every other entity that
\* was present is present, index() naming the slot that holds it and its
\* value, the entity moved from the last slot included
C15_RemovePresent ==
    [][\A id \in EntityIds :
          (Detach(id) /\ has(column, id))
            => /\ ~column_call'.panic
               /\ ~has(column', id)
               /\ index(column', id) = <<>>
               /\ count(column') = count(column) - 1
               /\ \A e \in Present(column) \ {id} :
                     has(column', e) /\ OwnSlot(column', attached, e)]_vars

C15_Witness ==
    /\ column_call.op = "remove"
    /\ ~column_call.panic
    /\ count(column_call.before) = MaxEntity
    /\ index(column_call.before, column_call.a) = <<0>>
    /\ \E e \in Present(column) :
          /\ index(column_call.before, e) = <<MaxEntity - 1>>
          /\ index(column, e) = <<0>>

\* C16: remove(id) on a column that does not hold id panics
C16_RemoveAbsentIsFatal ==
    [][\A id \in EntityIds :
          (Detach(id) /\ ~has(column, id)) => column_call'.panic]_vars

C16_Witness ==
    /\ column_call.op = "remove"
    /\ column_call.panic
    /\ ~has(column_call.before, column_call.a)
    /\ ~is_empty(column_call.before)

\* C18: after every call that returns, each present entity has a slot of its
\* own which holds it and its value, and count() is the number of present
\* entities; swap_by_index(a, b) exchanges the entries of the slots a and b,
\* and changes no other slot, no has() and not count()
C18_ColumnInvariant ==
    [][/\ \A e \in Present(column') : OwnSlot(column', attached', e)
       /\ \A e1, e2 \in Present(column') :
             index(column', e1) = index(column', e2) => e1 = e2
       /\ count(column') = Cardinality(Present(column'))
       /\ \A index_a, index_b \in 0..MaxEntity :
             (Swap(index_a, index_b) /\ ~column_call'.panic)
               => /\ Present(column') = Present(column)
                  /\ count(column') = count(column)
                  /\ column'.entities[index_a + 1] = column.entities[index_b + 1]
                  /\ column'.entities[index_b + 1] = column.entities[index_a + 1]
                  /\ \A e \in Present(column) :
                        index(column, e) \notin {<<index_a>>, <<index_b>>}
                          => index(column', e) = index(column, e)]_vars

C18_Witness ==
    /\ column_call.op = "swap_by_index"
    /\ ~column_call.panic
    /\ column_call.a # column_call.b
    /\ count(column) = MaxEntity
    /\ column.entities # column_call.before.entities
    /\ \E e \in Present(column) : index(column, e) = index(column_call.before, e)

\* this step is a run() that returned, in which the once-system S executed and
\* was removed while D stays registered with S among its dependencies
RemovedUnder(S, D) ==
    /\ RunReturns
    /\ S \in DOMAIN systems
    /\ systems[S].is_once
    /\ S \in Range(executed')
    /\ S \notin DOMAIN systems'
    /\ D \in DOMAIN systems'
    /\ S \in Deps(systems', D)

\* the last call was a run() that returned, S was executed by it and is no
\* longer registered, and D is registered with S among its dependencies
LeftBehind(S, D) ==
    /\ last_call = "run"
    /\ panic = <<>>
    /\ S \in Range(executed)
    /\ S \notin DOMAIN systems
    /\ D \in DOMAIN systems
    /\ S \in Deps(systems, D)

\* the next call is run(), and it panics in the rebuild before any hook
FatalAtRebuild ==
    last_call' = "run" =>
       /\ panic' = Panic("run", "-", "-", "Some dependencies have not been added to stage")
       /\ hooks' = <<>>

Next ==
    \/ \E T \in SystemTypes : add_system(T)
    \/ \E T \in OnceTypes : add_once_system(T)
    \/ \E T \in ToggledTypes : deactivate_dyn(T)
    \/ \E T \in ToggledTypes : activate_dyn(T)
    \/ \E T \in FetchedTypes : system_data_ref(T)
    \/ \E T \in FetchedTypes : system_data_mut(T)
    \/ \E pair \in EditedPairs : add_dependency(pair[1], pair[2])
    \/ \E pair \in EditedPairs : remove_dependency(pair[1], pair[2])
    \/ run

Spec == Init /\ [][Next]_vars

\* the calls on a stage whose dependents of once-systems are toggled as well
OnceNext ==
    \/ \E T \in SystemTypes : add_system(T)
    \/ \E T \in OnceTypes : add_once_system(T)
    \/ \E T \in ToggledTypes \cup DependentTypes : deactivate_dyn(T)
    \/ \E T \in ToggledTypes \cup DependentTypes : activate_dyn(T)
    \/ \E pair \in EditedPairs : add_dependency(pair[1], pair[2])
    \/ run

OnceSpec == Init /\ [][OnceNext]_vars

\* the calls on one component column
ColumnNext ==
    \/ \E entity_id \in EntityIds : \E value \in Values : Attach(entity_id, value)
    \/ \E entity_id \in EntityIds : Detach(entity_id)
    \/ \E index_a \in 0..MaxEntity : \E index_b \in 0..MaxEntity : Swap(index_a, index_b)

ColumnSpec == Init /\ [][ColumnNext]_vars
====
